---- MODULE Spec2Model ----
(***************************************************************************)
(* The resilient API client of the Squarespace MCP server                  *)
(* (src/clients/squarespace.ts, kept as src/unnamed/part_002):             *)
(* SquarespaceClient with its axios request and response interceptors,     *)
(* shouldRefreshToken, refreshAccessToken, handleError and makeRequest.    *)
(*                                                                         *)
(* Conventions.  A JavaScript string that is undefined or empty is the     *)
(* empty string (both are falsy in every test the client makes).  An       *)
(* optional object (tokenExpiresAt, error.response) is a sequence of       *)
(* length 0 or 1.  Times are milliseconds, as Date.now() gives them.       *)
(* JavaScript runs the continuation of a handler to completion before the  *)
(* next I/O event is delivered: while a call has a continuation pending,   *)
(* no other call and no clock tick takes a step (Quiet).                   *)
(***************************************************************************)
EXTENDS Integers, Sequences, FiniteSets, TLC

\* ------------------------------------------------------------------ bounds
\* The API server answers 401 at most this many times to one call.
MaxUnauthorized == 2
\* The clock stops after this many minutes.
MaxMinutes == 25

\* --------------------------------------------------------- program constants
DEFAULT_RETRY_ATTEMPTS == 3
fiveMinutes == 5 * 60 * 1000
thirtyMinutes == 30 * 60 * 1000
\* args.threshold || 10 and limit || 10 in the tool handlers.
DefaultThreshold == 10
DefaultLimit == 10

\* The fetched orders have at most this many line items between them.
MaxLineItems == 4

\* ------------------------------------------------------------ input domains
Absent == ""
CallIds == {"c1", "c2"}
\* The calls that are made one at a time, each awaited before the next.
Awaited == {"c1"}
IssuedTokens == {"A2", "A3"}
IssuedRefreshTokens == {Absent, "R2"}
SuccessStatuses == {200, 201}
ErrorStatuses == {401, 404, 429, 503}
Bodies == {"body", "other body"}
\* config.data: no body (a GET), or a body.
RequestBodies == {Absent, "payload"}
\* response.data of an error response: provider type, message and field
\* errors, or nothing.
ErrorBodies == {[type |-> "", message |-> "", errors |-> <<>>],
                [type |-> "PROVIDER_TYPE", message |-> "provider message",
                 errors |-> <<"field error">>]}
\* config.retryAttempts: not given, or given.
RetryChoices == {<<>>, <<0>>}
TickSteps == {fiveMinutes, 4 * fiveMinutes}
\* The bundle handed to the constructor.  expiresAt is what the caller knows
\* about the access token's expiry; SquarespaceConfig has no field for it.
Configs == [accessToken : {"A1"},
            refreshToken : {Absent, "R1"},
            clientId : {Absent, "id"},
            clientSecret : {Absent, "secret"},
            retryAttempts : RetryChoices,
            expiresAt : {"past", "unknown"}]
\* The bundles the constructor accepts: it reads config.accessToken without
\* testing it.  Only the server's start-up tests the environment variable
\* before it constructs its client.
ConfigsUnguarded == [accessToken : {Absent, "A1"},
                     refreshToken : {Absent, "R1"},
                     clientId : {Absent, "id"},
                     clientSecret : {"secret"},
                     retryAttempts : {<<0>>},
                     expiresAt : {"unknown"}]

VARIABLES
    tool,            \* the MCP tool invocation the server is handling
    config,          \* the construction bundle (never changes)
    accessToken, refreshToken, clientId, clientSecret, retryAttempts,
    tokenExpiresAt,  \* <<>> or <<ms>>
    now,             \* Date.now()
    pc,              \* per call: where the call is
    attempt,         \* per call: makeRequest's attempt parameter
    origin,          \* per call: the interceptor awaiting refreshAccessToken
    header,          \* per call: config.headers.Authorization (the token)
    err,             \* per call: the error travelling up the promise chain
    result,          \* per call: what the caller of makeRequest receives
    log,             \* per call: the outbound traffic of the call, in order
    atCall,          \* per call: the credential state when the call was made
    request,         \* per call: config.data, the body the caller supplied
    tokenResponse    \* response.data of the last successful OAuth call, and
                     \* Date.now() when it arrived

vars == <<tool, config, accessToken, refreshToken, clientId, clientSecret,
          retryAttempts, tokenExpiresAt, now, pc, attempt, origin, header,
          err, result, log, atCall, request, tokenResponse>>

clientVars == <<accessToken, refreshToken, clientId, clientSecret,
                retryAttempts, tokenExpiresAt>>

\* Everything but the tool invocation.
clientState == <<config, clientVars, now, pc, attempt, origin, header, err,
                 result, log, atCall, request, tokenResponse>>

\* ------------------------------------------------------------------ values
NoError == [class |-> "", response |-> <<>>, status |-> <<>>, type |-> "",
            message |-> "", errors |-> <<>>]
NoResult == [state |-> "pending", value |-> "", error |-> NoError]
NoSnapshot == [now |-> 0, expiresAt |-> <<>>, accessToken |-> Absent,
               refreshToken |-> Absent, data |-> Absent]
\* No tool invocation: arg is the tool's optional numeric argument, fetched
\* what the client returned to the tool, reply what the server answers.
\* thrown is what the tool threw (<<>> if nothing).
NoTool == [pc |-> "idle", server |-> "", name |-> "", arg |-> <<>>,
           fetched |-> <<>>, thrown |-> <<>>, reply |-> <<>>]
NoTokenResponse == [access_token |-> "", refresh_token |-> "", at |-> 0]

\* One entry of a call's traffic: token is the token it carries, data the
\* body it carries, basic the client_id and client_secret of its HTTP Basic
\* credential (<<>> when it has none).
Event(e, n, token, data) ==
    [e |-> e, n |-> n, token |-> token, data |-> data, basic |-> <<>>]

\* The POST to OAUTH_TOKEN_URL: Authorization: Basic base64(id:secret), and
\* the refresh token in the body.
RefreshEvent(e, token, id, secret) ==
    [e |-> e, n |-> 0, token |-> token, data |-> "", basic |-> <<id, secret>>]

\* new Error(message)
PlainError(message) ==
    [class |-> "Error", response |-> <<>>, status |-> <<>>, type |-> "",
     message |-> message, errors |-> <<>>]

\* The AxiosError axios rejects with: response is <<>> for a transport failure.
AxiosErrorOf(response, message) ==
    [class |-> "AxiosError", response |-> response, status |-> <<>>,
     type |-> "", message |-> message, errors |-> <<>>]

SquarespaceAPIError(status, type, message, errors) ==
    [class |-> "SquarespaceAPIError", response |-> <<>>, status |-> <<status>>,
     type |-> type, message |-> message, errors |-> errors]

\* ----------------------------------------------------------- pure functions
\* shouldRefreshToken with > for >=: the token that expires in exactly five
\* minutes is not refreshed.
shouldRefreshTokenStrict ==
    IF tokenExpiresAt = <<>> \/ refreshToken = Absent
    THEN FALSE
    ELSE now > tokenExpiresAt[1] - fiveMinutes

\* shouldRefreshToken with the token's lifetime as its margin.
shouldRefreshTokenEager ==
    IF tokenExpiresAt = <<>> \/ refreshToken = Absent
    THEN FALSE
    ELSE now >= tokenExpiresAt[1] - thirtyMinutes

\* shouldRefreshToken taking an unknown expiry for one that has passed.
shouldRefreshTokenUnknownIsExpired ==
    IF refreshToken = Absent
    THEN FALSE
    ELSE IF tokenExpiresAt = <<>>
         THEN TRUE
         ELSE now >= tokenExpiresAt[1] - fiveMinutes

shouldRefreshToken ==
    IF tokenExpiresAt = <<>> \/ refreshToken = Absent
    THEN FALSE
    ELSE now >= tokenExpiresAt[1] - fiveMinutes

\* The guard testing the refresh token alone.
MissingCredentialsTokenOnly ==
    refreshToken = Absent

\* The guard at the head of refreshAccessToken.
MissingCredentials ==
    refreshToken = Absent \/ clientId = Absent \/ clientSecret = Absent

\* handleError reading error.status, which an AxiosError does not have, for
\* error.response.status.
handleErrorWrongField(error) ==
    LET response == error.response
        status == IF error.status # <<>> THEN error.status[1] ELSE 500
        dataType == IF response # <<>> THEN response[1].data.type ELSE ""
        dataMessage == IF response # <<>> THEN response[1].data.message ELSE ""
        dataErrors == IF response # <<>> THEN response[1].data.errors ELSE <<>>
    IN SquarespaceAPIError(
           status,
           IF dataType # "" THEN dataType ELSE "UNKNOWN_ERROR",
           IF dataMessage # "" THEN dataMessage
           ELSE IF error.message # "" THEN error.message
           ELSE "An unknown error occurred",
           dataErrors)

\* handleError without error.message: a failure that has no response body
\* gets the fixed text.
handleErrorGenericMessage(error) ==
    LET response == error.response
        status == IF response # <<>> /\ response[1].status # 0
                  THEN response[1].status ELSE 500
        dataType == IF response # <<>> THEN response[1].data.type ELSE ""
        dataMessage == IF response # <<>> THEN response[1].data.message ELSE ""
        dataErrors == IF response # <<>> THEN response[1].data.errors ELSE <<>>
    IN SquarespaceAPIError(
           status,
           IF dataType # "" THEN dataType ELSE "UNKNOWN_ERROR",
           IF dataMessage # "" THEN dataMessage
           ELSE "An unknown error occurred",
           dataErrors)

handleError(error) ==
    LET response == error.response
        status == IF response # <<>> /\ response[1].status # 0
                  THEN response[1].status ELSE 500
        dataType == IF response # <<>> THEN response[1].data.type ELSE ""
        dataMessage == IF response # <<>> THEN response[1].data.message ELSE ""
        dataErrors == IF response # <<>> THEN response[1].data.errors ELSE <<>>
    IN SquarespaceAPIError(
           status,
           IF dataType # "" THEN dataType ELSE "UNKNOWN_ERROR",
           IF dataMessage # "" THEN dataMessage
           ELSE IF error.message # "" THEN error.message
           ELSE "An unknown error occurred",
           dataErrors)

\* The retry condition reading the normalized error's own status.
ShouldRetryNormalized(error, att) ==
    /\ att < retryAttempts
    /\ error.status # <<>>
    /\ \/ error.status[1] = 429
       \/ error.status[1] >= 500

\* The retry condition of makeRequest's catch block.
ShouldRetry(error, att) ==
    /\ att < retryAttempts
    /\ error.response # <<>>
    /\ \/ error.response[1].status = 429
       \/ error.response[1].status >= 500

RECURSIVE Pow2(_)
Pow2(k) == IF k = 0 THEN 1 ELSE 2 * Pow2(k - 1)

BackoffDelay(att) == Pow2(att) * 1000

\* ------------------------------------------------------------- scheduling
SuspendedPcs == {"refreshing", "inflight"}
RestingPcs == {"idle", "done"}
\* A client that lets one call in at a time: c runs only when no other call
\* has started and not finished.
QuietExclusive(c) == \A d \in CallIds \ {c} : pc[d] \in RestingPcs

\* No call other than c has a continuation pending.
Quiet(c) == \A d \in CallIds \ {c} : pc[d] \in SuspendedPcs \cup RestingPcs

Unauthorized(c) ==
    Cardinality({i \in 1..Len(log[c]) :
                    log[c][i].e = "response" /\ log[c][i].n = 401})

\* -------------------------------------------------------------------- Init
\* new SquarespaceClient(cfg), with no call made yet.
constructor(cfg) ==
    /\ config = cfg
    /\ accessToken = cfg.accessToken
    /\ refreshToken = cfg.refreshToken
    /\ clientId = cfg.clientId
    /\ clientSecret = cfg.clientSecret
    /\ retryAttempts = IF cfg.retryAttempts = <<>>
                       THEN DEFAULT_RETRY_ATTEMPTS
                       ELSE cfg.retryAttempts[1]
    /\ tokenExpiresAt = <<>>
    /\ now = 0
    /\ pc = [c \in CallIds |-> "idle"]
    /\ attempt = [c \in CallIds |-> 0]
    /\ origin = [c \in CallIds |-> ""]
    /\ header = [c \in CallIds |-> ""]
    /\ err = [c \in CallIds |-> NoError]
    /\ result = [c \in CallIds |-> NoResult]
    /\ log = [c \in CallIds |-> <<>>]
    /\ atCall = [c \in CallIds |-> NoSnapshot]
    /\ request = [c \in CallIds |-> Absent]
    /\ tokenResponse = NoTokenResponse

\* The server's client: index.ts exits when SQUARESPACE_ACCESS_TOKEN is not
\* set, and constructs the client otherwise.
Init == tool = NoTool /\ \E cfg \in Configs : constructor(cfg)

\* A client constructed by any other caller of the exported class.
InitUnguarded == tool = NoTool /\ \E cfg \in ConfigsUnguarded : constructor(cfg)

\* ----------------------------------------------------------------- actions
\* A public method calls makeRequest(config) with attempt = 0, which calls
\* this.client.request(config); data is config.data.
Call(c, data) ==
    /\ pc[c] = "idle"
    /\ Quiet(c)
    /\ pc' = [pc EXCEPT ![c] = "request"]
    /\ attempt' = [attempt EXCEPT ![c] = 0]
    /\ request' = [request EXCEPT ![c] = data]
    /\ atCall' = [atCall EXCEPT ![c] =
                     [now |-> now, expiresAt |-> tokenExpiresAt,
                      accessToken |-> accessToken,
                      refreshToken |-> refreshToken, data |-> data]]
    /\ UNCHANGED <<tool, config, clientVars, now, origin, header, err, result, log,
                   tokenResponse>>

\* refreshAccessToken up to its await: throws on missing credentials, else
\* posts to OAUTH_TOKEN_URL.  who is the interceptor that called it: the
\* log tells a pre-flight refresh from one that reacts to a 401.
StartRefresh(c, who) ==
    IF MissingCredentials
    THEN /\ err' = [err EXCEPT ![c] =
                       PlainError("Missing refresh token or OAuth credentials")]
         /\ UNCHANGED <<origin, log>>
    ELSE /\ origin' = [origin EXCEPT ![c] = who]
         /\ log' = [log EXCEPT ![c] =
                        Append(@, RefreshEvent(IF who = "request"
                                               THEN "preflight_refresh"
                                               ELSE "reactive_refresh",
                                               refreshToken, clientId,
                                               clientSecret))]
         /\ UNCHANGED err

\* Send leaving config.headers.Authorization as the request descriptor has
\* it, without reading this.accessToken.
SendStale(c) ==
    /\ header' = header
    /\ log' = [log EXCEPT ![c] =
                   Append(@, Event("dispatch", 0, header[c], request[c]))]
    /\ pc' = [pc EXCEPT ![c] = "inflight"]

\* config.headers.Authorization = `Bearer ${this.accessToken}`, then axios
\* dispatches the request.
Send(c) ==
    /\ header' = [header EXCEPT ![c] = accessToken]
    /\ log' = [log EXCEPT ![c] = Append(@, Event("dispatch", 0, accessToken, request[c]))]
    /\ pc' = [pc EXCEPT ![c] = "inflight"]

\* The request interceptor calling refreshAccessToken without await: the
\* refresh call and the request go out together.
RequestInterceptorNoAwait(c) ==
    /\ pc[c] = "request"
    /\ Quiet(c)
    /\ IF shouldRefreshToken /\ ~MissingCredentials
       THEN /\ origin' = [origin EXCEPT ![c] = "request"]
            /\ header' = [header EXCEPT ![c] = accessToken]
            /\ log' = [log EXCEPT ![c] =
                           Append(Append(@, RefreshEvent("preflight_refresh",
                                                         refreshToken, clientId,
                                                         clientSecret)),
                                  Event("dispatch", 0, accessToken, request[c]))]
            /\ pc' = [pc EXCEPT ![c] = "inflight"]
            /\ UNCHANGED err
       ELSE /\ Send(c)
            /\ UNCHANGED <<origin, err>>
    /\ UNCHANGED <<tool, config, clientVars, now, attempt, result, atCall, request,
                   tokenResponse>>

\* The request interceptor, up to its first await.
RequestInterceptor(c) ==
    /\ pc[c] = "request"
    /\ Quiet(c)
    /\ IF shouldRefreshToken
       THEN /\ StartRefresh(c, "request")
            /\ pc' = [pc EXCEPT ![c] =
                         IF MissingCredentials THEN "rejected" ELSE "refreshing"]
            /\ UNCHANGED header
       ELSE /\ Send(c)
            /\ UNCHANGED <<origin, err>>
    /\ UNCHANGED <<tool, config, clientVars, now, attempt, result, atCall, request, tokenResponse>>

\* RefreshResolved storing the access token and leaving the expiry as it was.
RefreshResolvedTokenOnly(c, access_token, refresh_token) ==
    /\ pc[c] = "refreshing"
    /\ Quiet(c)
    /\ accessToken' = access_token
    /\ refreshToken' = IF refresh_token # Absent THEN refresh_token
                       ELSE refreshToken
    /\ tokenExpiresAt' = tokenExpiresAt
    /\ tokenResponse' = [access_token |-> access_token,
                         refresh_token |-> refresh_token,
                         at |-> now]
    /\ log' = [log EXCEPT ![c] = Append(@, Event("refresh_ok", 0, access_token, ""))]
    /\ pc' = [pc EXCEPT ![c] =
                 IF origin[c] = "request" THEN "authorize" ELSE "retry401"]
    /\ UNCHANGED <<tool, config, clientId, clientSecret, retryAttempts, now, attempt,
                   origin, header, err, result, atCall, request>>

\* RefreshResolved storing response.data.refresh_token whether or not the
\* response has one.
RefreshResolvedOverwrite(c, access_token, refresh_token) ==
    /\ pc[c] = "refreshing"
    /\ Quiet(c)
    /\ accessToken' = access_token
    /\ refreshToken' = refresh_token
    /\ tokenExpiresAt' = <<now + thirtyMinutes>>
    /\ tokenResponse' = [access_token |-> access_token,
                         refresh_token |-> refresh_token,
                         at |-> now]
    /\ log' = [log EXCEPT ![c] = Append(@, Event("refresh_ok", 0, access_token, ""))]
    /\ pc' = [pc EXCEPT ![c] =
                 IF origin[c] = "request" THEN "authorize" ELSE "retry401"]
    /\ UNCHANGED <<tool, config, clientId, clientSecret, retryAttempts, now, attempt,
                   origin, header, err, result, atCall, request>>

\* The OAuth endpoint answers 2xx: refreshAccessToken stores the response.
RefreshResolved(c, access_token, refresh_token) ==
    /\ pc[c] = "refreshing"
    /\ Quiet(c)
    /\ accessToken' = access_token
    /\ refreshToken' = IF refresh_token # Absent THEN refresh_token
                       ELSE refreshToken
    /\ tokenExpiresAt' = <<now + thirtyMinutes>>
    /\ tokenResponse' = [access_token |-> access_token,
                   refresh_token |-> refresh_token,
                         at |-> now]
    /\ log' = [log EXCEPT ![c] = Append(@, Event("refresh_ok", 0, access_token, ""))]
    /\ pc' = [pc EXCEPT ![c] =
                 IF origin[c] = "request" THEN "authorize" ELSE "retry401"]
    /\ UNCHANGED <<tool, config, clientId, clientSecret, retryAttempts, now, attempt,
                   origin, header, err, result, atCall, request>>

\* RefreshRejected whose response interceptor rejects with the 401 that made
\* it refresh.
RefreshRejectedReportsOriginal(c) ==
    /\ pc[c] = "refreshing"
    /\ Quiet(c)
    /\ log' = [log EXCEPT ![c] = Append(@, Event("refresh_fail", 0, "", ""))]
    /\ IF origin[c] = "request"
       THEN /\ err' = [err EXCEPT ![c] =
                          PlainError("Failed to refresh access token")]
            /\ pc' = [pc EXCEPT ![c] = "rejected"]
       ELSE /\ err' = [err EXCEPT ![c] = handleError(err[c])]
            /\ pc' = [pc EXCEPT ![c] = "catch"]
    /\ UNCHANGED <<tool, config, clientVars, now, attempt, origin, header, result,
                   atCall, request, tokenResponse>>

\* RefreshRejected dropping the access token that could not be renewed.
RefreshRejectedDropsToken(c) ==
    /\ pc[c] = "refreshing"
    /\ Quiet(c)
    /\ accessToken' = Absent
    /\ log' = [log EXCEPT ![c] = Append(@, Event("refresh_fail", 0, "", ""))]
    /\ IF origin[c] = "request"
       THEN /\ err' = [err EXCEPT ![c] =
                          PlainError("Failed to refresh access token")]
            /\ pc' = [pc EXCEPT ![c] = "rejected"]
       ELSE /\ err' = [err EXCEPT ![c] =
                          handleError(PlainError("Failed to refresh access token"))]
            /\ pc' = [pc EXCEPT ![c] = "catch"]
    /\ UNCHANGED <<tool, config, refreshToken, clientId, clientSecret, retryAttempts,
                   tokenExpiresAt, now, attempt, origin, header, result,
                   atCall, request, tokenResponse>>

\* RefreshRejected whose response interceptor swallows the refresh error and
\* goes on to the retry.
RefreshRejectedSwallowed(c) ==
    /\ pc[c] = "refreshing"
    /\ Quiet(c)
    /\ log' = [log EXCEPT ![c] = Append(@, Event("refresh_fail", 0, "", ""))]
    /\ IF origin[c] = "request"
       THEN /\ err' = [err EXCEPT ![c] =
                          PlainError("Failed to refresh access token")]
            /\ pc' = [pc EXCEPT ![c] = "rejected"]
       ELSE /\ pc' = [pc EXCEPT ![c] = "retry401"]
            /\ UNCHANGED err
    /\ UNCHANGED <<tool, config, clientVars, now, attempt, origin, header, result,
                   atCall, request, tokenResponse>>

\* The OAuth call fails: refreshAccessToken throws its own Error.  In the
\* request interceptor the rejection skips the dispatch and reaches the
\* response interceptor's error handler; in the response interceptor it is
\* caught and normalised.
RefreshRejected(c) ==
    /\ pc[c] = "refreshing"
    /\ Quiet(c)
    /\ log' = [log EXCEPT ![c] = Append(@, Event("refresh_fail", 0, "", ""))]
    /\ IF origin[c] = "request"
       THEN /\ err' = [err EXCEPT ![c] =
                          PlainError("Failed to refresh access token")]
            /\ pc' = [pc EXCEPT ![c] = "rejected"]
       ELSE /\ err' = [err EXCEPT ![c] =
                          handleError(PlainError("Failed to refresh access token"))]
            /\ pc' = [pc EXCEPT ![c] = "catch"]
    /\ UNCHANGED <<tool, config, clientVars, now, attempt, origin, header, result,
                   atCall, request, tokenResponse>>

\* Authorize attaching the token the interceptor read before it awaited the
\* refresh.
AuthorizeCapturedToken(c) ==
    /\ pc[c] = "authorize"
    /\ Quiet(c)
    /\ header' = [header EXCEPT ![c] = atCall[c].accessToken]
    /\ log' = [log EXCEPT ![c] =
                   Append(@, Event("dispatch", 0, atCall[c].accessToken,
                                   request[c]))]
    /\ pc' = [pc EXCEPT ![c] = "inflight"]
    /\ UNCHANGED <<tool, config, clientVars, now, attempt, origin, err, result,
                   atCall, request, tokenResponse>>

\* The request interceptor after its refresh: attach the token and dispatch.
Authorize(c) ==
    /\ pc[c] = "authorize"
    /\ Quiet(c)
    /\ Send(c)
    /\ UNCHANGED <<tool, config, clientVars, now, attempt, origin, err, result,
                   atCall, request, tokenResponse>>

\* HttpSuccess returning response.config.data, the body that was sent.
HttpSuccessEcho(c, status, body) ==
    /\ pc[c] = "inflight"
    /\ Quiet(c)
    /\ log' = [log EXCEPT ![c] = Append(@, Event("response", status, "", body))]
    /\ result' = [result EXCEPT ![c] =
                     [state |-> "returned", value |-> request[c],
                      error |-> NoError]]
    /\ pc' = [pc EXCEPT ![c] = "done"]
    /\ UNCHANGED <<tool, config, clientVars, now, attempt, origin, header, err,
                   atCall, request, tokenResponse>>

\* HttpSuccess taking every success as proof that the token is good for
\* another thirty minutes.
HttpSuccessSlidingExpiry(c, status, body) ==
    /\ pc[c] = "inflight"
    /\ Quiet(c)
    /\ log' = [log EXCEPT ![c] = Append(@, Event("response", status, "", body))]
    /\ result' = [result EXCEPT ![c] =
                     [state |-> "returned", value |-> body, error |-> NoError]]
    /\ pc' = [pc EXCEPT ![c] = "done"]
    /\ tokenExpiresAt' = <<now + thirtyMinutes>>
    /\ UNCHANGED <<tool, config, accessToken, refreshToken, clientId, clientSecret,
                   retryAttempts, now, attempt, origin, header, err, atCall,
                   request, tokenResponse>>

\* A 2xx response: the response interceptor passes it on and makeRequest
\* returns response.data.
HttpSuccess(c, status, body) ==
    /\ pc[c] = "inflight"
    /\ Quiet(c)
    /\ log' = [log EXCEPT ![c] = Append(@, Event("response", status, "", body))]
    /\ result' = [result EXCEPT ![c] =
                     [state |-> "returned", value |-> body, error |-> NoError]]
    /\ pc' = [pc EXCEPT ![c] = "done"]
    /\ UNCHANGED <<tool, config, clientVars, now, attempt, origin, header, err,
                   atCall, request, tokenResponse>>

\* A non-2xx response: axios rejects with an AxiosError carrying it.
HttpError(c, status, data) ==
    /\ pc[c] = "inflight"
    /\ Quiet(c)
    /\ status = 401 => Unauthorized(c) < MaxUnauthorized
    /\ log' = [log EXCEPT ![c] = Append(@, Event("response", status, "", ""))]
    /\ err' = [err EXCEPT ![c] =
                  AxiosErrorOf(<<[status |-> status, data |-> data]>>,
                               "Request failed")]
    /\ pc' = [pc EXCEPT ![c] = "rejected"]
    /\ UNCHANGED <<tool, config, clientVars, now, attempt, origin, header, result,
                   atCall, request, tokenResponse>>

\* No response at all (timeout, DNS): an AxiosError without response.
TransportFailure(c) ==
    /\ pc[c] = "inflight"
    /\ Quiet(c)
    /\ log' = [log EXCEPT ![c] = Append(@, Event("no_response", 0, "", ""))]
    /\ err' = [err EXCEPT ![c] = AxiosErrorOf(<<>>, "timeout exceeded")]
    /\ pc' = [pc EXCEPT ![c] = "rejected"]
    /\ UNCHANGED <<tool, config, clientVars, now, attempt, origin, header, result,
                   atCall, request, tokenResponse>>

\* The error handler refreshing on every 401, refresh token or not.
ResponseRejectedNoTokenCheck(c) ==
    /\ pc[c] = "rejected"
    /\ Quiet(c)
    /\ IF /\ err[c].response # <<>>
          /\ err[c].response[1].status = 401
       THEN /\ StartRefresh(c, "response")
            /\ IF MissingCredentials
               THEN /\ pc' = [pc EXCEPT ![c] = "caught"]
               ELSE /\ pc' = [pc EXCEPT ![c] = "refreshing"]
       ELSE /\ err' = [err EXCEPT ![c] = handleError(err[c])]
            /\ pc' = [pc EXCEPT ![c] = "catch"]
            /\ UNCHANGED <<origin, log>>
    /\ UNCHANGED <<tool, config, clientVars, now, attempt, header, result, atCall, request,
                   tokenResponse>>

\* The response interceptor's error handler.
ResponseRejected(c) ==
    /\ pc[c] = "rejected"
    /\ Quiet(c)
    /\ IF /\ err[c].response # <<>>
          /\ err[c].response[1].status = 401
          /\ refreshToken # Absent
       THEN /\ StartRefresh(c, "response")
            /\ IF MissingCredentials
               THEN \* caught: Promise.reject(this.handleError(refreshError))
                    /\ pc' = [pc EXCEPT ![c] = "caught"]
               ELSE /\ pc' = [pc EXCEPT ![c] = "refreshing"]
       ELSE /\ err' = [err EXCEPT ![c] = handleError(err[c])]
            /\ pc' = [pc EXCEPT ![c] = "catch"]
            /\ UNCHANGED <<origin, log>>
    /\ UNCHANGED <<tool, config, clientVars, now, attempt, header, result, atCall, request,
                   tokenResponse>>

\* The catch rejecting with refreshError as it is.
RefreshCaughtRaw(c) ==
    /\ pc[c] = "caught"
    /\ Quiet(c)
    /\ pc' = [pc EXCEPT ![c] = "catch"]
    /\ UNCHANGED <<tool, config, clientVars, now, attempt, origin, header, err,
                   result, log, atCall, request, tokenResponse>>

\* The response interceptor's catch (refreshError): normalise and reject.
RefreshCaught(c) ==
    /\ pc[c] = "caught"
    /\ Quiet(c)
    /\ err' = [err EXCEPT ![c] = handleError(err[c])]
    /\ pc' = [pc EXCEPT ![c] = "catch"]
    /\ UNCHANGED <<tool, config, clientVars, now, attempt, origin, header, result,
                   log, atCall, request, tokenResponse>>

\* The response interceptor after its refresh: set the new token on the
\* original config and return this.client.request(config), which runs the
\* whole interceptor chain again.
Retry401(c) ==
    /\ pc[c] = "retry401"
    /\ Quiet(c)
    /\ header' = [header EXCEPT ![c] = accessToken]
    /\ err' = [err EXCEPT ![c] = NoError]
    /\ pc' = [pc EXCEPT ![c] = "request"]
    /\ UNCHANGED <<tool, config, clientVars, now, attempt, origin, result, log,
                   atCall, request, tokenResponse>>

\* makeRequest's catch block: back off and call makeRequest again with
\* attempt + 1, or rethrow.
MakeRequestCatch(c) ==
    /\ pc[c] = "catch"
    /\ Quiet(c)
    /\ IF ShouldRetry(err[c], attempt[c])
       THEN /\ log' = [log EXCEPT ![c] =
                          Append(@, Event("backoff", BackoffDelay(attempt[c]), "", ""))]
            /\ attempt' = [attempt EXCEPT ![c] = @ + 1]
            /\ pc' = [pc EXCEPT ![c] = "request"]
            /\ UNCHANGED result
       ELSE /\ result' = [result EXCEPT ![c] =
                             [state |-> "thrown", value |-> "", error |-> err[c]]]
            /\ pc' = [pc EXCEPT ![c] = "done"]
            /\ UNCHANGED <<attempt, log>>
    /\ UNCHANGED <<tool, config, clientVars, now, origin, header, err, atCall, request,
                   tokenResponse>>

\* The caller has its value or error; the request descriptor is dropped.
Finish(c) ==
    /\ pc[c] = "done"
    /\ Quiet(c)
    /\ pc' = [pc EXCEPT ![c] = "idle"]
    /\ attempt' = [attempt EXCEPT ![c] = 0]
    /\ origin' = [origin EXCEPT ![c] = ""]
    /\ header' = [header EXCEPT ![c] = ""]
    /\ err' = [err EXCEPT ![c] = NoError]
    /\ result' = [result EXCEPT ![c] = NoResult]
    /\ log' = [log EXCEPT ![c] = <<>>]
    /\ atCall' = [atCall EXCEPT ![c] = NoSnapshot]
    /\ request' = [request EXCEPT ![c] = Absent]
    /\ UNCHANGED <<tool, config, clientVars, now, tokenResponse>>

\* Time passes while the event loop is idle.
Tick(d) ==
    /\ \A c \in CallIds : pc[c] \in SuspendedPcs \cup RestingPcs
    /\ now + d <= MaxMinutes * 60 * 1000
    /\ now' = now + d
    /\ UNCHANGED <<tool, config, clientVars, pc, attempt, origin, header, err,
                   result, log, atCall, request, tokenResponse>>

Step(c) ==
    \/ \E data \in RequestBodies : Call(c, data)
    \/ RequestInterceptor(c)
    \/ \E t \in IssuedTokens \ {accessToken}, r \in IssuedRefreshTokens :
           RefreshResolved(c, t, r)
    \/ RefreshRejected(c)
    \/ Authorize(c)
    \/ \E s \in SuccessStatuses, b \in Bodies : HttpSuccess(c, s, b)
    \/ \E s \in ErrorStatuses, d \in ErrorBodies : HttpError(c, s, d)
    \/ TransportFailure(c)
    \/ ResponseRejected(c)
    \/ RefreshCaught(c)
    \/ Retry401(c)
    \/ MakeRequestCatch(c)
    \/ Finish(c)

\* One tool invocation at a time uses the client.
Next ==
    \/ \E c \in Awaited : Step(c)
    \/ \E d \in TickSteps : Tick(d)

Spec == Init /\ [][Next]_vars

SpecUnguarded == InitUnguarded /\ [][Next]_vars

\* Several tool invocations use the client at once: each public method is
\* async and nothing in the client makes one call wait for another.  The
\* client has all its OAuth credentials; the API answers 200 or 401.
ConcurrentConfig == [accessToken |-> "A1", refreshToken |-> "R1",
                     clientId |-> "id", clientSecret |-> "secret",
                     retryAttempts |-> <<0>>, expiresAt |-> "unknown"]

InitConcurrent == tool = NoTool /\ constructor(ConcurrentConfig)

\* The 401 answers the calls in progress have had between them.
UnauthorizedAll == Unauthorized("c1") + Unauthorized("c2")

StepConcurrent(c) ==
    \/ Call(c, Absent)
    \/ RequestInterceptor(c)
    \/ \E t \in IssuedTokens \ {accessToken} : RefreshResolved(c, t, Absent)
    \/ RefreshRejected(c)
    \/ Authorize(c)
    \/ HttpSuccess(c, 200, "body")
    \/ /\ UnauthorizedAll < MaxUnauthorized
       /\ HttpError(c, 401, [type |-> "", message |-> "", errors |-> <<>>])
    \/ TransportFailure(c)
    \/ ResponseRejected(c)
    \/ Retry401(c)
    \/ MakeRequestCatch(c)
    \/ Finish(c)

NextConcurrent ==
    \/ \E c \in CallIds : StepConcurrent(c)
    \/ Tick(5 * fiveMinutes)

SpecConcurrent == InitConcurrent /\ [][NextConcurrent]_vars

\* What is certain to happen.  The event loop runs every continuation that
\* is ready.  A request sent through this.client has axios's timer on it
\* (timeout: config.timeout || DEFAULT_TIMEOUT, never 0), which rejects it
\* if nothing else ends it.  The post to OAUTH_TOKEN_URL goes through the
\* axios default instance with no timeout option, and nothing a remote
\* endpoint does is certain: no fairness on any answer, and none on the end
\* of a refresh.
EventLoop ==
    \A c \in Awaited :
        /\ WF_vars(RequestInterceptor(c))
        /\ WF_vars(Authorize(c))
        /\ WF_vars(ResponseRejected(c))
        /\ WF_vars(Retry401(c))
        /\ WF_vars(MakeRequestCatch(c))

RequestTimeout == \A c \in Awaited : WF_vars(TransportFailure(c))

NextAwaited ==
    \/ \E c \in Awaited : StepConcurrent(c)
    \/ Tick(5 * fiveMinutes)

SpecTimeout ==
    InitConcurrent /\ [][NextAwaited]_vars /\ EventLoop /\ RequestTimeout


\* ================================================================ the tools
\* The MCP servers: index.ts (src/unnamed/part_003) with its registered
\* tools, and the single-file server (src/unnamed/part_004) with handleTool.
\* A tool awaits one client call and computes its reply from what the client
\* returned; the client call is taken by its outcome, a value or an error.

\* ------------------------------------------------------------ tool inputs
Servers == {"index", "single"}
Registered == {"squarespace_check_low_stock", "squarespace_get_top_products"}
SingleFileTools == {"list_products"}
ToolNames == Registered \cup SingleFileTools \cup {"no_such_tool"}
\* args.threshold or args.limit: not given, or a number.
ToolArgs == {<<>>, <<0>>, <<1>>, <<2>>}

\* variant.stock: not there, unlimited, or a quantity.
Stocks == {<<>>, <<[unlimited |-> TRUE, quantity |-> 0]>>}
              \cup {<<[unlimited |-> FALSE, quantity |-> q]>> : q \in {0, 2, 10, 11}}
\* products.result of getProducts(): two products, three variants.
ProductLists ==
    {<<[name |-> "shirt",
        variants |-> <<[id |-> "v1", stock |-> s1], [id |-> "v2", stock |-> s2]>>],
       [name |-> "mug", variants |-> <<[id |-> "v3", stock |-> s3]>>]>> :
         s1 \in Stocks, s2 \in Stocks, s3 \in Stocks}

\* A Money value is a decimal string with two decimals: its whole part and
\* its hundredths.
toFixed(hundredths) ==
    [whole |-> hundredths \div 100, frac |-> hundredths % 100]
\* parseFloat of such a string, counted in hundredths.
parseFloat(value) == value.whole * 100 + value.frac

ProductIds == {"p1", "p2", "p3"}
\* One unit for 1.00 or two units for 2.50.
LineItems ==
    {[productId |-> p, quantity |-> 1,
      lineItemPricePaid |-> [value |-> toFixed(100)]] : p \in ProductIds}
        \cup {[productId |-> p, quantity |-> 2,
                lineItemPricePaid |-> [value |-> toFixed(250)]] :
                   p \in ProductIds \ {"p3"}}
LineItemLists == UNION {[1..n -> LineItems] : n \in 0..MaxLineItems}
\* orders.result of getOrders(): two orders sharing the line items.
OrderLists ==
    UNION {{<<[lineItems |-> SubSeq(items, 1, k)],
              [lineItems |-> SubSeq(items, k + 1, Len(items))]>> :
               k \in 0..Len(items)} : items \in LineItemLists}

\* The parsed JSON object client.get returns in the single-file server.
ApiObjects == {[result |-> body] : body \in Bodies}

\* What a client method throws to a tool of index.ts: a normalized error.
ClientErrors ==
    {handleError(AxiosErrorOf(<<[status |-> st, data |-> d]>>, "Request failed")) :
         st \in ErrorStatuses, d \in ErrorBodies}
        \cup {handleError(AxiosErrorOf(<<>>, "timeout exceeded")),
              handleError(PlainError("Failed to refresh access token"))}
\* What the fetch client of the single-file server throws.
FetchErrors == {PlainError("Squarespace API error: 404"),
                PlainError("Squarespace API error: 429")}
ThrownBy(server) == IF server = "index" THEN ClientErrors ELSE FetchErrors

\* ------------------------------------------------ squarespace_check_low_stock
IsLow(variant, threshold) ==
    /\ variant.stock # <<>>
    /\ ~variant.stock[1].unlimited
    /\ variant.stock[1].quantity <= threshold

\* The two nested loops over products.result and product.variants.
RECURSIVE lowStock(_, _)
lowStock(products, threshold) ==
    IF products = <<>>
    THEN <<>>
    ELSE LET product == Head(products)
             low == SelectSeq(product.variants, LAMBDA v : IsLow(v, threshold))
         IN [i \in 1..Len(low) |->
                 [product |-> product.name, variant |-> low[i].id,
                  quantity |-> low[i].stock[1].quantity]]
                \o lowStock(Tail(products), threshold)

\* The handler: `Found ${lowStock.length} variants with stock <= ${threshold}`
\* and the list as JSON.
checkLowStock(arg, products) ==
    LET threshold == IF arg # <<>> /\ arg[1] # 0 THEN arg[1]
                     ELSE DefaultThreshold
        found == lowStock(products, threshold)
    IN [isError |-> FALSE,
        content |-> [found |-> Len(found), threshold |-> threshold,
                     json |-> found]]

\* ------------------------------------------------------------ getTopProducts
RECURSIVE lineItemsOf(_)
lineItemsOf(orders) ==
    IF orders = <<>> THEN <<>>
    ELSE Head(orders).lineItems \o lineItemsOf(Tail(orders))

\* The Map productStats after the two forEach loops, in insertion order.
RECURSIVE productStats(_, _)
productStats(items, stats) ==
    IF items = <<>>
    THEN stats
    ELSE LET item == Head(items)
             paid == parseFloat(item.lineItemPricePaid.value)
             at == {i \in 1..Len(stats) : stats[i].productId = item.productId}
         IN productStats(
                Tail(items),
                IF at = {}
                THEN Append(stats, [productId |-> item.productId,
                                    units |-> item.quantity, revenue |-> paid])
                ELSE LET i == CHOOSE i \in at : TRUE
                     IN [stats EXCEPT ![i] =
                            [productId |-> @.productId,
                             units |-> @.units + item.quantity,
                             revenue |-> @.revenue + paid]])

\* The comparator with its operands the other way round.
byRevenueAscending(a, b) ==
    parseFloat(a.revenue.value) - parseFloat(b.revenue.value)

\* (a, b) => parseFloat(b.revenue.value) - parseFloat(a.revenue.value)
byRevenueDescending(a, b) ==
    parseFloat(b.revenue.value) - parseFloat(a.revenue.value)

\* Array.prototype.sort is stable: x goes after everything that does not
\* have to come after it.
RECURSIVE insertSorted(_, _)
insertSorted(sorted, x) ==
    IF sorted = <<>>
    THEN <<x>>
    ELSE IF byRevenueDescending(Head(sorted), x) <= 0
         THEN <<Head(sorted)>> \o insertSorted(Tail(sorted), x)
         ELSE <<x>> \o sorted

RECURSIVE sort(_)
sort(array) ==
    IF array = <<>>
    THEN <<>>
    ELSE insertSorted(sort(SubSeq(array, 1, Len(array) - 1)),
                      array[Len(array)])

\* array.slice(0, end)
slice(array, end) ==
    LET stop == IF end < 0
                THEN (IF Len(array) + end < 0 THEN 0 ELSE Len(array) + end)
                ELSE (IF end > Len(array) THEN Len(array) ELSE end)
    IN SubSeq(array, 1, stop)

getTopProducts(orders, limit) ==
    LET stats == productStats(lineItemsOf(orders), <<>>)
        performance == [i \in 1..Len(stats) |->
                           [productId |-> stats[i].productId,
                            unitsSold |-> stats[i].units,
                            revenue |-> [value |-> toFixed(stats[i].revenue)]]]
    IN slice(sort(performance), limit)

\* The handler of squarespace_get_top_products.
getTopProductsTool(arg, orders) ==
    LET limit == IF arg # <<>> /\ arg[1] # 0 THEN arg[1] ELSE DefaultLimit
    IN [isError |-> FALSE,
        content |-> [json |-> getTopProducts(orders, limit)]]

\* ------------------------------------------------------ the call-tool handlers
\* tool.handler(request.params.arguments) once its client call has returned.
toolHandler(name, arg, data) ==
    IF name = "squarespace_check_low_stock"
    THEN checkLowStock(arg, data)
    ELSE getTopProductsTool(arg, data)

\* The catch of index.ts leaving the details out.
errorReplyNoDetails(error) ==
    [isError |-> TRUE,
     content |-> [prefix |-> "Error: ",
                  message |-> IF error.message # "" THEN error.message
                              ELSE "An unknown error occurred",
                  details |-> <<>>]]

\* The catch of index.ts: `Error: ${errorMessage}` and, if error.errors is
\* there, `\nDetails: ${JSON.stringify(error.errors)}`.
errorReply(error) ==
    [isError |-> TRUE,
     content |-> [prefix |-> "Error: ",
                  message |-> IF error.message # "" THEN error.message
                              ELSE "An unknown error occurred",
                  details |-> IF error.errors # <<>>
                              THEN <<[json |-> error.errors]>>
                              ELSE <<>>]]

\* The catch of the single-file server: `Error: ${message}`.
errorReplySingleFile(error) ==
    [isError |-> TRUE,
     content |-> [prefix |-> "Error: ", message |-> error.message,
                  details |-> <<>>]]

\* The single-file server's reply: JSON.stringify(result, null, 2) as text.
textReply(value) ==
    [isError |-> FALSE, content |-> [json |-> value, indent |-> 2]]

UnknownTool == PlainError("Unknown tool")

\* A tools/call request arrives.  index.ts looks the tool up outside its try
\* and throws for an unknown name; the single-file server's handleTool throws
\* inside the try.
CallTool(server, name, arg) ==
    /\ tool.pc = "idle"
    /\ tool' =
           IF server = "index" /\ name \notin Registered
           THEN [pc |-> "threw", server |-> server, name |-> name, arg |-> arg,
                 fetched |-> <<>>, thrown |-> <<UnknownTool>>, reply |-> <<>>]
           ELSE IF server = "single" /\ name \notin SingleFileTools
           THEN [pc |-> "replied", server |-> server, name |-> name,
                 arg |-> arg, fetched |-> <<>>, thrown |-> <<UnknownTool>>,
                 reply |-> <<errorReplySingleFile(UnknownTool)>>]
           ELSE [pc |-> "running", server |-> server, name |-> name,
                 arg |-> arg, fetched |-> <<>>, thrown |-> <<>>,
                 reply |-> <<>>]
    /\ UNCHANGED clientState

\* The tool's client call returns data: the tool computes its result and the
\* call-tool handler answers.
ClientReturns(name, data) ==
    /\ tool.pc = "running"
    /\ tool.name = name
    /\ tool' = [tool EXCEPT
                   !.pc = "replied",
                   !.fetched = data,
                   !.reply = IF tool.server = "index"
                             THEN <<toolHandler(name, tool.arg, data)>>
                             ELSE <<textReply(data)>>]
    /\ UNCHANGED clientState

\* The tool's client call throws: the call-tool handler's catch answers.
ClientThrows(error) ==
    /\ tool.pc = "running"
    /\ tool' = [tool EXCEPT
                   !.pc = "replied",
                   !.thrown = <<error>>,
                   !.reply = IF tool.server = "index"
                             THEN <<errorReply(error)>>
                             ELSE <<errorReplySingleFile(error)>>]
    /\ UNCHANGED clientState

\* The answer has gone out.
ToolDone ==
    /\ tool.pc \in {"replied", "threw"}
    /\ tool' = NoTool
    /\ UNCHANGED clientState

NextTools ==
    \/ \E server \in Servers, name \in ToolNames, arg \in ToolArgs :
           CallTool(server, name, arg)
    \/ /\ tool.pc = "running" /\ tool.name = "squarespace_check_low_stock"
       /\ \E products \in ProductLists :
              ClientReturns("squarespace_check_low_stock", products)
    \/ /\ tool.pc = "running" /\ tool.name = "squarespace_get_top_products"
       /\ \E orders \in OrderLists :
              ClientReturns("squarespace_get_top_products", orders)
    \/ /\ tool.pc = "running" /\ tool.name = "list_products"
       /\ \E object \in ApiObjects : ClientReturns("list_products", object)
    \/ \E error \in ThrownBy(tool.server) : ClientThrows(error)
    \/ ToolDone

SpecTools == InitConcurrent /\ [][NextTools]_vars

\* ------------------------------------------------- reading a call's traffic
Positions(c, kind) == {i \in 1..Len(log[c]) : log[c][i].e = kind}
RefreshPositions(c) ==
    Positions(c, "preflight_refresh") \cup Positions(c, "reactive_refresh")
Dispatches(c) == Cardinality(Positions(c, "dispatch"))
RefreshCalls(c) == Cardinality(RefreshPositions(c))
ResponsesWith(c, status) ==
    {i \in Positions(c, "response") : log[c][i].n = status}
After(c, i, kind) == {j \in Positions(c, kind) : j > i}
Min(S) == CHOOSE x \in S : \A y \in S : x <= y
Done(c) == pc[c] = "done"
Threw(c, status) ==
    /\ result[c].state = "thrown"
    /\ result[c].error.class = "SquarespaceAPIError"
    /\ result[c].error.status = <<status>>
OAuthConfigured ==
    /\ config.refreshToken # Absent
    /\ config.clientId # Absent
    /\ config.clientSecret # Absent

\* ------------------------------------------------------------------ claims

\* C1: after a 401 response, with a refresh token configured, the client
\* issues exactly one refresh call and exactly one retry of the request; when
\* the retry is answered 401 too, the call ends with that 401 as its error
\* and nothing further is sent.  (The code re-enters the response
\* interceptor on the retry's 401 and refreshes and retries again.)
C1_OneRefreshOneRetry ==
    \A c \in CallIds :
        ResponsesWith(c, 401) # {} =>
            LET first == Min(ResponsesWith(c, 401))
                refreshes == After(c, first, "preflight_refresh")
                                 \cup After(c, first, "reactive_refresh")
                retries == After(c, first, "dispatch")
            IN /\ Cardinality(refreshes) <= 1
               /\ Cardinality(retries) <= 1
               /\ (Done(c) /\ OAuthConfigured) => Cardinality(refreshes) = 1
               /\ (Done(c) /\ Cardinality(ResponsesWith(c, 401)) = 2)
                      => Threw(c, 401)

\* C2: every call ends after a bounded number of dispatches of its request:
\* each of the retryAttempts + 1 attempts of the 429/5xx path is dispatched
\* once and retried at most once after a 401.  (The code dispatches once more
\* for every 401 the server answers.)
C2_DispatchesBounded ==
    \A c \in CallIds : Dispatches(c) <= 2 * (retryAttempts + 1)

\* C3: when every response to a call is 429, or every response is 5xx, the
\* call is dispatched retryAttempts + 1 times and then throws the normalized
\* error with the status of the last response.  (The code's retry test reads
\* error.response, which the normalized error does not have.)
C3_RetriesThenSurfaces ==
    \A c \in CallIds :
        LET responses == Positions(c, "response")
            last == log[c][Len(log[c])]
        IN (/\ Done(c)
            /\ responses # {}
            /\ Positions(c, "no_response") = {}
            /\ \/ \A i \in responses : log[c][i].n = 429
               \/ \A i \in responses : log[c][i].n >= 500)
           => /\ Dispatches(c) = retryAttempts + 1
              /\ last.e = "response"
              /\ Threw(c, last.n)

C1_Reached ==
    \E c \in CallIds : Cardinality(ResponsesWith(c, 401)) = 2

\* C4: a response with a 4xx status other than 401 and 429 ends the call at
\* once: nothing is sent after it (no retry, no refresh, no backoff), the
\* caller gets the normalized error with that status, and when it answers
\* the call's first dispatch the request was dispatched exactly once and no
\* refresh call reacted to it.
C4_ClientErrorSurfaces ==
    \A c \in CallIds : \A i \in Positions(c, "response") :
        LET status == log[c][i].n
        IN (status \in 400..499 /\ status \notin {401, 429})
           => /\ i = Len(log[c])
              /\ pc[c] \in {"rejected", "catch", "done"}
              /\ Done(c) => Threw(c, status)
              /\ ResponsesWith(c, 401) = {}
                     => /\ Dispatches(c) = 1
                        /\ Positions(c, "reactive_refresh") = {}
                        /\ Positions(c, "backoff") = {}

C4_Witness ==
    \E c \in CallIds :
        /\ Done(c)
        /\ Len(log[c]) = 2
        /\ log[c][1].e = "dispatch"
        /\ log[c][2] = Event("response", 404, "", "")
        /\ Threw(c, 404)

\* The call was made and its request interceptor has run.
Started(c) == pc[c] # "idle" /\ ~(pc[c] = "request" /\ log[c] = <<>>)
\* The call was made with a refresh token and a stored expiry five minutes
\* or less away, or past.
NearExpiryAtCall(c) ==
    /\ Started(c)
    /\ atCall[c].refreshToken # Absent
    /\ atCall[c].expiresAt # <<>>
    /\ atCall[c].expiresAt[1] - atCall[c].now <= fiveMinutes
\* The call was made with a stored expiry more than five minutes away.
FarExpiryAtCall(c) ==
    /\ Started(c)
    /\ atCall[c].expiresAt # <<>>
    /\ atCall[c].expiresAt[1] - atCall[c].now > fiveMinutes
Reacts(c, i) ==
    /\ log[c][i].e = "reactive_refresh"
    /\ i > 1
    /\ log[c][i - 1] = Event("response", 401, "", "")

\* C5 as stated: a call made with a refresh token and a stored expiry five
\* minutes or less away issues exactly one refresh call, before its request.
C5_ExactlyOneRefresh ==
    \A c \in CallIds :
        NearExpiryAtCall(c)
            => /\ Len(log[c]) > 0
               /\ log[c][1].e = "preflight_refresh"
               /\ RefreshCalls(c) = 1

\* C5 amended: such a call issues exactly one refresh call before its
\* request is first dispatched; every further refresh call of the call
\* reacts to a 401 response.
C5_OneRefreshBeforeDispatch ==
    \A c \in CallIds :
        NearExpiryAtCall(c)
            => /\ Len(log[c]) > 0
               /\ log[c][1].e = "preflight_refresh"
               /\ Positions(c, "dispatch") # {}
                     => Cardinality({i \in RefreshPositions(c) :
                            i < Min(Positions(c, "dispatch"))}) = 1
               /\ \A i \in RefreshPositions(c) : i > 1 => Reacts(c, i)

C5_Witness ==
    \E c \in CallIds :
        /\ NearExpiryAtCall(c)
        /\ atCall[c].expiresAt[1] - atCall[c].now = fiveMinutes
        /\ Done(c)
        /\ RefreshCalls(c) = 1
        /\ Dispatches(c) = 1

\* C6 as stated: a call made with a stored expiry more than five minutes
\* away issues no refresh call.
C6_NoRefresh ==
    \A c \in CallIds : FarExpiryAtCall(c) => RefreshCalls(c) = 0

\* C6 amended: such a call issues no refresh call before its request is
\* dispatched; it issues one only in reaction to a 401 response.
C6_NoPreflightRefresh ==
    \A c \in CallIds :
        FarExpiryAtCall(c)
            => /\ Positions(c, "preflight_refresh") = {}
               /\ Len(log[c]) > 0 => log[c][1].e = "dispatch"
               /\ \A i \in RefreshPositions(c) : Reacts(c, i)

C6_Witness ==
    \E c \in CallIds :
        /\ FarExpiryAtCall(c)
        /\ atCall[c].expiresAt[1] - atCall[c].now = 2 * fiveMinutes
        /\ Done(c)
        /\ Dispatches(c) = 2
        /\ RefreshCalls(c) = 1

\* C7: a client constructed with an access token, a refresh token (and the
\* OAuth credentials) and an expiry already past issues a refresh call before
\* its first API request, and no request carries the expired token.  (The
\* constructor takes no expiry; tokenExpiresAt stays undefined.)
C7_ExpiredAtConstruction ==
    (config.expiresAt = "past" /\ OAuthConfigured)
        => \A c \in CallIds : \A i \in Positions(c, "dispatch") :
               /\ log[c][i].token # config.accessToken
               /\ \/ tokenExpiresAt # <<>>
                  \/ \E j \in RefreshPositions(c) : j < i

\* C8: when the pre-flight refresh fails, nothing is sent after it, the
\* request it preceded is never dispatched, and the call throws that failure.
C8_PreflightFailureStopsCall ==
    \A c \in CallIds : \A i \in Positions(c, "refresh_fail") :
        (i > 1 /\ log[c][i - 1].e = "preflight_refresh")
            => /\ i = Len(log[c])
               /\ pc[c] \in {"rejected", "catch", "done"}
               /\ i = 2 => Dispatches(c) = 0
               /\ Done(c)
                     => /\ result[c].state = "thrown"
                        /\ result[c].error.message
                               = "Failed to refresh access token"

C8_Witness ==
    \E c \in CallIds :
        /\ Done(c)
        /\ Len(log[c]) = 2
        /\ log[c][1].e = "preflight_refresh"
        /\ log[c][2].e = "refresh_fail"
        /\ result[c].state = "thrown"

\* C9: when the refresh that reacts to a 401 fails, the request is not
\* retried (nothing is sent after the failure) and the call throws.
C9_ReactiveFailureStopsCall ==
    \A c \in CallIds :
        /\ \A i \in Positions(c, "refresh_fail") :
               (i > 1 /\ log[c][i - 1].e = "reactive_refresh")
                   => /\ i = Len(log[c])
                      /\ pc[c] \in {"catch", "done"}
                      /\ Done(c) => result[c].state = "thrown"
        /\ (/\ Done(c)
            /\ Len(log[c]) > 0
            /\ log[c][Len(log[c])] = Event("response", 401, "", ""))
               => result[c].state = "thrown"

C9_Witness ==
    \E c \in CallIds :
        /\ Done(c)
        /\ Len(log[c]) = 4
        /\ log[c][2] = Event("response", 401, "", "")
        /\ log[c][3].e = "reactive_refresh"
        /\ log[c][4].e = "refresh_fail"
        /\ result[c].state = "thrown"

\* C10: the step that stores a successful refresh sets the access token to
\* the one returned, the refresh token to the one returned if the response
\* has one and leaves it as it was otherwise, and the expiry to the time of
\* the refresh plus thirty minutes.
C10_RefreshReplacesCredentials ==
    [][\A c \in CallIds :
           (pc[c] = "refreshing" /\ pc'[c] \in {"authorize", "retry401"})
               => /\ accessToken' = tokenResponse'.access_token
                  /\ refreshToken' =
                         IF tokenResponse'.refresh_token # Absent
                         THEN tokenResponse'.refresh_token
                         ELSE refreshToken
                  /\ tokenExpiresAt' = <<now + thirtyMinutes>>]_vars

C10_Witness ==
    \E c \in CallIds :
        /\ pc[c] \in {"authorize", "retry401"}
        /\ tokenResponse.access_token \in IssuedTokens
        /\ tokenResponse.refresh_token = Absent
        /\ accessToken = tokenResponse.access_token
        /\ refreshToken = config.refreshToken
        /\ refreshToken # Absent
        /\ now > 0
        /\ tokenExpiresAt = <<now + thirtyMinutes>>

\* One of the three things a refresh needs was not configured.  (None of
\* them is ever removed, and only the refresh token is ever replaced.)
CredentialMissing ==
    \/ config.refreshToken = Absent
    \/ config.clientId = Absent
    \/ config.clientSecret = Absent
LastEvent(c) == log[c][Len(log[c])]

\* C11: when the refresh token, the client id or the client secret is
\* missing, no call ever contacts the OAuth endpoint, and a refresh that a
\* 401 asks for fails at once: nothing is sent after the 401 (no retry) and
\* the call throws the missing-credentials error.
C11_MissingCredentialsFailFast ==
    CredentialMissing =>
        \A c \in CallIds :
            /\ RefreshPositions(c) = {}
            /\ pc[c] # "refreshing"
            /\ pc[c] = "caught"
                   => err[c] = PlainError(
                          "Missing refresh token or OAuth credentials")
            /\ \A i \in ResponsesWith(c, 401) :
                   /\ i = Len(log[c])
                   /\ (Done(c) /\ config.refreshToken # Absent)
                          => /\ result[c].state = "thrown"
                             /\ result[c].error.message =
                                    "Missing refresh token or OAuth credentials"

C11_Witness ==
    \E c \in CallIds :
        /\ config.refreshToken # Absent
        /\ config.clientId = Absent
        /\ Done(c)
        /\ Len(log[c]) = 2
        /\ LastEvent(c) = Event("response", 401, "", "")
        /\ result[c].error.message = "Missing refresh token or OAuth credentials"

\* C12: a client constructed without a refresh token never issues a refresh
\* call and never retries: a 401 is the last event of its call and is thrown
\* as the normalized error with status 401.
C12_NoRefreshTokenPropagates401 ==
    config.refreshToken = Absent =>
        \A c \in CallIds :
            /\ RefreshPositions(c) = {}
            /\ Dispatches(c) <= 1
            /\ pc[c] \notin {"refreshing", "caught", "retry401", "authorize"}
            /\ \A i \in ResponsesWith(c, 401) :
                   /\ i = Len(log[c])
                   /\ pc[c] \in {"rejected", "catch", "done"}
                   /\ Done(c) => Threw(c, 401)

C12_Witness ==
    \E c \in CallIds :
        /\ config.refreshToken = Absent
        /\ config.clientId = Absent
        /\ config.clientSecret = Absent
        /\ Done(c)
        /\ Len(log[c]) = 2
        /\ LastEvent(c) = Event("response", 401, "", "")
        /\ Threw(c, 401)

\* C13: whatever a call throws is a normalized error (a status, a type and a
\* message); a call returns a value only for a 2xx response, and a call whose
\* last event is a failure throws.
C13_OnlyNormalizedErrors ==
    \A c \in CallIds :
        /\ Done(c) <=> result[c].state \in {"thrown", "returned"}
        /\ result[c].state = "thrown"
               => /\ result[c].error.class = "SquarespaceAPIError"
                  /\ result[c].error.status # <<>>
                  /\ result[c].error.type # ""
                  /\ result[c].error.message # ""
        /\ result[c].state = "returned"
               => /\ Len(log[c]) > 0
                  /\ LastEvent(c).e = "response"
                  /\ LastEvent(c).n \in 200..299
        /\ (/\ Done(c)
            /\ Len(log[c]) > 0
            /\ \/ LastEvent(c).e \in {"no_response", "refresh_fail"}
               \/ LastEvent(c).e = "response" /\ LastEvent(c).n \notin 200..299)
               => result[c].state = "thrown"

C13_Witness ==
    \E c \in CallIds :
        /\ Done(c)
        /\ config.refreshToken # Absent
        /\ config.clientSecret = Absent
        /\ LastEvent(c) = Event("response", 401, "", "")
        /\ result[c].error.class = "SquarespaceAPIError"
        /\ result[c].error.status = <<500>>

\* C14: the error handler turns a failure without a response into status
\* 500, type "UNKNOWN_ERROR" and the failure's own message, and an error
\* response into the response's status with the provider's type, message and
\* field errors; makeRequest throws what the handler made.
C14_ErrorNormalization ==
    [][\A c \in CallIds :
           /\ (pc[c] = "rejected" /\ pc'[c] = "catch")
                  => IF err[c].response = <<>>
                     THEN err'[c] = SquarespaceAPIError(
                              500, "UNKNOWN_ERROR", err[c].message, <<>>)
                     ELSE LET response == err[c].response[1]
                          IN /\ err'[c].class = "SquarespaceAPIError"
                             /\ err'[c].status = <<response.status>>
                             /\ response.data.type # ""
                                    => err'[c].type = response.data.type
                             /\ response.data.message # ""
                                    => err'[c].message = response.data.message
                             /\ err'[c].errors = response.data.errors
           /\ (pc[c] = "catch" /\ pc'[c] = "done")
                  => result'[c] = [state |-> "thrown", value |-> "",
                                   error |-> err[c]]]_vars

C14_Witness ==
    \E c \in CallIds :
        /\ Done(c)
        /\ LastEvent(c).e = "no_response"
        /\ result[c].state = "thrown"
        /\ result[c].error = SquarespaceAPIError(
               500, "UNKNOWN_ERROR", "timeout exceeded", <<>>)

\* The event a step adds to the traffic of call c.
Sent(c) == log'[c][Len(log'[c])]
Sends(c) == Len(log'[c]) = Len(log[c]) + 1
RefreshKinds == {"preflight_refresh", "reactive_refresh"}

\* C17: every request sent to the API carries the access token the client
\* holds when the request is dispatched, and no Basic credential; the Basic
\* credential and the refresh token travel only on the call to the OAuth
\* token endpoint.
C17_BearerOnApiBasicOnRefresh ==
    [][\A c \in CallIds :
           Sends(c) =>
               /\ Sent(c).e = "dispatch"
                      => /\ Sent(c).token = accessToken
                         /\ header'[c] = accessToken
                         /\ Sent(c).token # Absent
                         /\ Sent(c).token # refreshToken
                         /\ Sent(c).basic = <<>>
               /\ Sent(c).basic # <<>> => Sent(c).e \in RefreshKinds
               /\ (Sent(c).token # Absent /\ Sent(c).token = refreshToken)
                      => /\ Sent(c).e \in RefreshKinds
                         /\ Sent(c).basic = <<clientId, clientSecret>>]_vars

\* A call that dispatched, refreshed, and dispatched again with the new token.
C17_Witness ==
    \E c \in CallIds :
        \E i, j, k \in 1..Len(log[c]) :
            /\ i < j /\ j < k
            /\ log[c][i].e = "dispatch"
            /\ log[c][j].e = "reactive_refresh"
            /\ log[c][j].basic = <<"id", "secret">>
            /\ log[c][k].e = "dispatch"
            /\ log[c][k].token # log[c][i].token
            /\ log[c][k].token = accessToken
            /\ header[c] = accessToken

\* C19: when a response has a 2xx status, makeRequest returns that
\* response's body as it came, and every request the call sent carried the
\* body the caller supplied.
C19_BodiesUnchanged ==
    \A c \in CallIds :
        (/\ log[c] # <<>>
         /\ LastEvent(c).e = "response"
         /\ LastEvent(c).n \in 200..299)
            => /\ Done(c)
               /\ result[c] = [state |-> "returned",
                               value |-> LastEvent(c).data, error |-> NoError]
               /\ \A i \in Positions(c, "dispatch") :
                      log[c][i].data = atCall[c].data

\* A call with a request body, answered 201 with the second body after a
\* refresh and a second dispatch.
C19_Witness ==
    \E c \in CallIds :
        /\ Done(c)
        /\ atCall[c].data = "payload"
        /\ Dispatches(c) = 2
        /\ LastEvent(c) = Event("response", 201, "", "other body")
        /\ result[c].value = "other body"

\* C20: a call whose pre-flight check asks for no refresh and whose first
\* dispatch is answered 2xx sends one HTTP request and nothing else, and
\* leaves the access token, the refresh token and the expiry as they were.
C20_PlainSuccessChangesNothing ==
    \A c \in CallIds :
        (/\ Len(log[c]) >= 2
         /\ log[c][1].e = "dispatch"
         /\ log[c][2].e = "response"
         /\ log[c][2].n \in 200..299)
            => /\ Len(log[c]) = 2
               /\ Dispatches(c) = 1
               /\ RefreshCalls(c) = 0
               /\ Done(c)
               /\ accessToken = atCall[c].accessToken
               /\ refreshToken = atCall[c].refreshToken
               /\ tokenExpiresAt = atCall[c].expiresAt

\* Such a call on a client that has refreshed before: its expiry is known
\* and is more than five minutes away.
C20_Witness ==
    \E c \in CallIds :
        /\ Done(c)
        /\ Len(log[c]) = 2
        /\ log[c][1].e = "dispatch"
        /\ log[c][2].e = "response" /\ log[c][2].n = 200
        /\ tokenExpiresAt # <<>>
        /\ refreshToken # Absent
        /\ now < tokenExpiresAt[1] - fiveMinutes
        /\ tokenExpiresAt = atCall[c].expiresAt

\* C18: a client cannot be constructed without an access token: every client
\* instance holds a non-empty access token.
C18_NoClientWithoutAccessToken ==
    accessToken # Absent

\* The refresh calls of call c that have no answer yet.
OpenRefreshes(c) ==
    RefreshCalls(c) - Cardinality(Positions(c, "refresh_ok"))
                    - Cardinality(Positions(c, "refresh_fail"))
Refreshing == {c \in CallIds : pc[c] = "refreshing"}

\* C15: at any time at most one refresh request is in flight on a client,
\* also when several of its calls are in progress at once.
C15_OneRefreshInFlight ==
    Cardinality(Refreshing) <= 1

\* C15, amended: each call has at most one refresh request in flight, waits
\* for its answer before it sends anything else, and has none in flight when
\* it is not waiting; the calls in progress can each have one.
C15_OneRefreshInFlightPerCall ==
    \A c \in CallIds :
        /\ OpenRefreshes(c) \in {0, 1}
        /\ OpenRefreshes(c) = 1 <=> pc[c] = "refreshing"
        /\ OpenRefreshes(c) = 1 => LastEvent(c).e \in RefreshKinds

\* Two calls answered 401, each waiting for its own refresh.
C15_Witness ==
    /\ Refreshing = CallIds
    /\ \A c \in CallIds : LastEvent(c).e = "reactive_refresh"

\* C16: however the refreshes of concurrent calls interleave, the stored
\* access token and the stored expiry are those of one refresh response, the
\* last one applied: the token it carried and thirty minutes from its arrival.
C16_TokenAndExpiryFromOneResponse ==
    tokenResponse # NoTokenResponse
        => /\ accessToken = tokenResponse.access_token
           /\ tokenExpiresAt = <<tokenResponse.at + thirtyMinutes>>

\* Two refreshes overlapped and were applied at different times: call c
\* applied its response first and has its retry in flight with that token,
\* call d applied its response later.
C16_Witness ==
    \E c, d \in CallIds :
        /\ c # d
        /\ pc[c] = "inflight"
        /\ Positions(c, "refresh_ok") # {}
        /\ header[c] # accessToken
        /\ pc[d] = "retry401"
        /\ LastEvent(d).e = "refresh_ok"
        /\ LastEvent(d).token = accessToken
        /\ tokenResponse.at > 0
        /\ tokenExpiresAt = <<now + thirtyMinutes>>

\* The backoffs of call c before position i: the attempt number there.
AttemptAt(c, i) == Cardinality({j \in Positions(c, "backoff") : j < i})
Retryable(status) == status = 429 \/ status >= 500

\* C21: after failed attempt number k (a 429 or 5xx answer with attempts
\* left) the client waits 2^k seconds before anything else: the next thing
\* the call does is a wait of 2^k * 1000 ms, and the retry follows it.
C21_BackoffBeforeRetry ==
    \A c \in CallIds :
        \A i \in Positions(c, "response") :
            (/\ Retryable(log[c][i].n)
             /\ AttemptAt(c, i) < retryAttempts
             /\ (Len(log[c]) > i \/ Done(c)))
                => /\ Len(log[c]) > i
                   /\ log[c][i + 1] =
                          Event("backoff", BackoffDelay(AttemptAt(c, i)), "", "")

\* The access token that the refresh answered at position i of call c
\* replaced: the one the previous refresh of the call stored, or the one the
\* client held when the call was made.
ReplacedAt(c, i) ==
    LET earlier == {j \in Positions(c, "refresh_ok") : j < i}
    IN IF earlier = {} THEN atCall[c].accessToken
       ELSE log[c][CHOOSE j \in earlier : \A k \in earlier : k <= j].token

\* C24: after a refresh of a call succeeds, before the first dispatch or
\* after a 401, the next thing the call sends is its request with the access
\* token that refresh returned, not the token it replaced.
C24_NextDispatchCarriesNewToken ==
    \A c \in CallIds :
        \A i \in Positions(c, "refresh_ok") :
            Len(log[c]) > i
                => /\ log[c][i + 1].e = "dispatch"
                   /\ log[c][i + 1].token = log[c][i].token
                   /\ log[c][i + 1].token # ReplacedAt(c, i)

\* A call that refreshed before its first dispatch and again after a 401,
\* and dispatched after each.
C24_Witness ==
    \E c \in CallIds :
        /\ Done(c)
        /\ log[c][1].e = "preflight_refresh"
        /\ log[c][2].e = "refresh_ok"
        /\ Positions(c, "reactive_refresh") # {}
        /\ Cardinality(Positions(c, "refresh_ok")) = 2
        /\ LastEvent(c).e = "response" /\ LastEvent(c).n = 200

credentials == <<accessToken, refreshToken, tokenExpiresAt>>

\* C29: a refresh that fails, because a credential is missing or because the
\* OAuth endpoint fails, changes nothing: the access token, the refresh
\* token and the expiry stay as they were from the moment the refresh is
\* attempted to the moment its failure is delivered.
C29_FailedRefreshChangesNothing ==
    [][\A c \in CallIds :
           /\ (Sends(c) /\ Sent(c).e \in RefreshKinds \cup {"refresh_fail"})
                  => UNCHANGED credentials
           /\ (pc[c] = "refreshing" /\ pc'[c] = "refreshing")
                  => UNCHANGED credentials
           /\ (err'[c] # err[c] /\ err'[c].class = "Error")
                  => UNCHANGED credentials]_vars

\* A client that has refreshed once and whose next refresh failed: it still
\* holds what the first refresh stored.
C29_Witness ==
    \E c \in CallIds :
        /\ Done(c)
        /\ LastEvent(c).e = "refresh_fail"
        /\ result[c].state = "thrown"
        /\ tokenExpiresAt # <<>>
        /\ accessToken = tokenResponse.access_token
        /\ accessToken \in IssuedTokens

\* C30: when the refresh that answers a 401 fails, at the OAuth endpoint or
\* for a missing client id or secret, the caller gets the normalized error
\* with status 500, type "UNKNOWN_ERROR" and the message of the refresh
\* failure, not the 401.
C30_ReactiveFailureReports500 ==
    \A c \in CallIds :
        Done(c) =>
            /\ (/\ Len(log[c]) >= 2
                /\ LastEvent(c).e = "refresh_fail"
                /\ log[c][Len(log[c]) - 1].e = "reactive_refresh")
                   => /\ result[c].state = "thrown"
                      /\ result[c].error =
                             SquarespaceAPIError(500, "UNKNOWN_ERROR",
                                 "Failed to refresh access token", <<>>)
            /\ (/\ log[c] # <<>>
                /\ LastEvent(c) = Event("response", 401, "", "")
                /\ refreshToken # Absent)
                   => /\ result[c].state = "thrown"
                      /\ result[c].error =
                             SquarespaceAPIError(500, "UNKNOWN_ERROR",
                                 "Missing refresh token or OAuth credentials",
                                 <<>>)

\* The second retry's 401 is answered by a refresh that fails.
C30_Witness ==
    \E c \in CallIds :
        /\ Done(c)
        /\ Cardinality(ResponsesWith(c, 401)) = 2
        /\ LastEvent(c).e = "refresh_fail"
        /\ log[c][Len(log[c]) - 1].e = "reactive_refresh"
        /\ log[c][Len(log[c]) - 2] = Event("response", 401, "", "")
        /\ Threw(c, 500)
        /\ result[c].error.message = "Failed to refresh access token"

\* C22: every outbound call is bounded by the timeout: a request waiting for
\* the API, and a refresh waiting for the OAuth endpoint, each stops waiting
\* in the end even if no answer ever comes.
C22_EveryOutboundCallEnds ==
    \A c \in Awaited :
        /\ (pc[c] = "inflight") ~> (pc[c] # "inflight")
        /\ (pc[c] = "refreshing") ~> (pc[c] # "refreshing")

\* C23: while a call is suspended, waiting for the API or for the OAuth
\* endpoint, every other call on the client can go on: it can be made, its
\* request can be dispatched, and whatever step it is at can be taken.
C23_SuspensionDoesNotBlock ==
    \A c, d \in CallIds :
        (c # d /\ pc[d] \in SuspendedPcs)
            => /\ ENABLED StepConcurrent(c)
               /\ pc[c] = "idle" => ENABLED Call(c, Absent)
               /\ pc[c] = "request" => ENABLED RequestInterceptor(c)
               /\ pc[c] = "authorize" => ENABLED Authorize(c)
               /\ pc[c] = "inflight" => ENABLED HttpSuccess(c, 200, "body")
               /\ pc[c] = "rejected" => ENABLED ResponseRejected(c)
               /\ pc[c] = "retry401" => ENABLED Retry401(c)
               /\ pc[c] = "catch" => ENABLED MakeRequestCatch(c)

\* Call d was made at time 0 and its request is still unanswered; call c was
\* made twenty-five minutes later and has returned.
C23_Witness ==
    \E c, d \in CallIds :
        /\ c # d
        /\ pc[d] = "inflight"
        /\ atCall[d].now = 0
        /\ Len(log[d]) = 1
        /\ atCall[c].now = 5 * fiveMinutes
        /\ Done(c)
        /\ result[c].state = "returned"
        /\ Dispatches(c) >= 1

\* ------------------------------------------------------ claims on the tools
Replied(name) ==
    tool.pc = "replied" /\ tool.name = name /\ tool.thrown = <<>>
RegisteredIn(server) ==
    IF server = "index" THEN Registered ELSE SingleFileTools
\* "Error: <message>", with the field errors as details when the error has
\* them.
ErrorResult(error) ==
    [isError |-> TRUE,
     content |-> [prefix |-> "Error: ", message |-> error.message,
                  details |-> IF error.errors # <<>>
                              THEN <<[json |-> error.errors]>>
                              ELSE <<>>]]
\* What the tool's handler returned: tool.handler in index.ts, handleTool in
\* the single-file server.
HandlerResult ==
    IF tool.server = "index"
    THEN toolHandler(tool.name, tool.arg, tool.fetched)
    ELSE tool.fetched

\* C25: in the call-tool handler an error thrown by a registered tool never
\* propagates: the answer is a result with isError = true and the text
\* "Error: <message>", with the field errors as details when there are any;
\* what a handler returns is the answer, unchanged.
C25_ErrorsAreResultsSuccessUnchanged ==
    (tool.pc \in {"replied", "threw"} /\ tool.name \in RegisteredIn(tool.server))
        => /\ tool.pc = "replied"
           /\ tool.thrown # <<>> => tool.reply = <<ErrorResult(tool.thrown[1])>>
           /\ tool.thrown = <<>> => tool.reply = <<HandlerResult>>

\* C25, amended: as C25 for index.ts; the single-file server answers a
\* success with the handler's result as indented JSON text, not with the
\* result itself.  An unknown tool name is an exception in index.ts and an
\* error result in the single-file server.
C25_ErrorsAreResults ==
    tool.pc \in {"replied", "threw"}
        => IF tool.name \in RegisteredIn(tool.server)
           THEN /\ tool.pc = "replied"
                /\ tool.thrown # <<>>
                       => tool.reply = <<ErrorResult(tool.thrown[1])>>
                /\ tool.thrown = <<>>
                       => tool.reply = IF tool.server = "index"
                                       THEN <<HandlerResult>>
                                       ELSE <<[isError |-> FALSE,
                                               content |-> [json |-> HandlerResult,
                                                            indent |-> 2]]>>
           ELSE IF tool.server = "index"
                THEN tool.pc = "threw" /\ tool.reply = <<>>
                ELSE tool.pc = "replied" /\ tool.reply[1].isError

\* A tool of index.ts threw the normalized error of a response that had
\* field errors.
C25_Witness ==
    /\ tool.pc = "replied"
    /\ tool.server = "index"
    /\ tool.name \in Registered
    /\ tool.thrown # <<>>
    /\ tool.thrown[1].class = "SquarespaceAPIError"
    /\ tool.thrown[1].errors = <<"field error">>
    /\ tool.reply[1].isError
    /\ tool.reply[1].content.message = "provider message"
    /\ tool.reply[1].content.details = <<[json |-> <<"field error">>]>>

\* The variants of the fetched products, as the tool reports them.
VariantsOf(products) ==
    UNION {{[product |-> products[i].name,
             variant |-> products[i].variants[j],
             at |-> <<i, j>>] :
               j \in 1..Len(products[i].variants)} : i \in 1..Len(products)}

\* C26: squarespace_check_low_stock reports exactly the variants whose stock
\* is there, is not unlimited and is at most the threshold supplied, 0
\* included; it uses 10 only when no threshold is supplied.
C26_LowStockExactForEveryThreshold ==
    Replied("squarespace_check_low_stock")
        => LET threshold == IF tool.arg = <<>> THEN DefaultThreshold
                            ELSE tool.arg[1]
               expected == {[product |-> v.product, variant |-> v.variant.id,
                             quantity |-> v.variant.stock[1].quantity] :
                                v \in {w \in VariantsOf(tool.fetched) :
                                          IsLow(w.variant, threshold)}}
               found == tool.reply[1].content.json
           IN /\ {found[i] : i \in 1..Len(found)} = expected
              /\ Len(found) = Cardinality(expected)
              /\ tool.reply[1].content.found = Cardinality(expected)

RECURSIVE Sum(_, _)
Sum(f, S) ==
    IF S = {} THEN 0
    ELSE LET x == CHOOSE x \in S : TRUE IN f[x] + Sum(f, S \ {x})

\* C27: getTopProducts returns at most limit entries, one for each product
\* id among the line items of the fetched orders, with the units and the
\* revenue of that product added up, the larger revenue first; a product
\* left out by the limit has no more revenue than any product returned.
C27_TopProducts ==
    Replied("squarespace_get_top_products")
        => LET items == lineItemsOf(tool.fetched)
               top == tool.reply[1].content.json
               limit == IF tool.arg = <<>> \/ tool.arg[1] = 0
                        THEN DefaultLimit ELSE tool.arg[1]
               ids == {items[i].productId : i \in 1..Len(items)}
               Of(p) == {i \in 1..Len(items) : items[i].productId = p}
               Units(p) ==
                   Sum([i \in 1..Len(items) |-> items[i].quantity], Of(p))
               Revenue(p) ==
                   Sum([i \in 1..Len(items) |->
                            parseFloat(items[i].lineItemPricePaid.value)],
                       Of(p))
               returned == {top[i].productId : i \in 1..Len(top)}
           IN /\ Len(top) <= limit
              /\ Len(top) = Cardinality(returned)
              /\ returned \subseteq ids
              /\ Cardinality(ids) <= limit => returned = ids
              /\ Cardinality(ids) > limit => Len(top) = limit
              /\ \A i \in 1..Len(top) :
                     /\ top[i].unitsSold = Units(top[i].productId)
                     /\ top[i].revenue.value = toFixed(Revenue(top[i].productId))
              /\ \A i, j \in 1..Len(top) :
                     i < j => Revenue(top[i].productId)
                                  >= Revenue(top[j].productId)
              /\ \A p \in ids \ returned, q \in returned :
                     Revenue(p) <= Revenue(q)

\* Three products, one of them on two line items, and a limit of two: the
\* product with the least revenue is left out.
C27_Witness ==
    /\ Replied("squarespace_get_top_products")
    /\ tool.arg = <<2>>
    /\ LET items == lineItemsOf(tool.fetched)
           top == tool.reply[1].content.json
       IN /\ Len(items) = 4
          /\ {items[i].productId : i \in 1..Len(items)} = ProductIds
          /\ Len(top) = 2
          /\ top[1].unitsSold = 3
          /\ top[1].revenue.value = toFixed(350)
          /\ top[2].revenue.value = toFixed(250)

====
